---- MODULE Spec2Model ----
(***************************************************************************)
(* Model of src/main.rs of bevy_3d_fractals: the two recursive placement   *)
(* generators (create_tetrahedron, generate_fractal), the base mesh built  *)
(* in setup, and the one-shot update system guarded by NeedsUpdate.        *)
(*                                                                         *)
(* Numbers.  An f32 is a binary fixed-point number: the integer n stands   *)
(* for n / ONE.  Every value the model computes from its inputs is a       *)
(* multiple of 1 / ONE, so each operation is exact here as it is in f32;   *)
(* rounding is not modelled.  The Sierpinski offsets contain sqrt(2): a    *)
(* Sierpinski position <<x, y, z>> keeps y in units of sqrt(2) and z in    *)
(* units of 1/sqrt(2), so that its coefficients stay such numbers.         *)
(*                                                                         *)
(* Generators.  A generator is the operator that yields the events of one  *)
(* call in the order the code produces them: "call" (a call is entered,    *)
(* with the arguments it received), "spawn" (commands.spawn, with the      *)
(* bundle), "return" (the call returns) and "overflow" (iteration - 1 was  *)
(* computed from 0: the program stops there).  `path` places an event in   *)
(* the call tree: the loop indices from the top-level call down.           *)
(***************************************************************************)
EXTENDS Integers, Sequences, FiniteSets, Bags, TLC

VARIABLES
    pc,             \* "ready" | "done" (a generator called directly),
                    \* "startup" | "idle" (the application)
    args,           \* arguments of the direct generator call
    trace,          \* events of the direct generator call
    materials,      \* highest handle handed out by Assets<StandardMaterial>
    needs_update,   \* the NeedsUpdate resource
    shapes,         \* rows of update's query: entities with the Shape marker
    runs,           \* one entry per generate_fractal call made by update
    ticks,          \* completed runs of the Update schedule
    passes,         \* runs of update that took the needs_update branch
    mesh            \* the Mesh built by setup

vars == <<pc, args, trace, materials, needs_update, shapes, runs, ticks,
          passes, mesh>>

---------------------------------------------------------------------------
(* Bounds of the model *)

MaxDepthS == 3      \* largest `iteration` of a direct create_tetrahedron call
MaxDepthM == 2      \* largest `iteration` of a direct generate_fractal call
MaxShapes == 2      \* most Shape entities ever spawned
MaxTicks == 17      \* most Update ticks observed

---------------------------------------------------------------------------
(* f32 and Vec3 *)

ONE == 2 ^ 10
R(n) == n * ONE
Vec3(x, y, z) == <<x, y, z>>
ZERO == Vec3(R(0), R(0), R(0))

\* a - b on u32.  When b > a the subtraction overflows: a debug build panics, a
\* release build wraps to a + 2^32 - b; U32Overflow stands for that outcome.
U32Overflow == -1
U32Sub(a, b) == IF a >= b THEN a - b ELSE U32Overflow

---------------------------------------------------------------------------
(* Events *)

Event(kind, position, scale, iteration, m, mat, path) ==
    [kind |-> kind, position |-> position, scale |-> scale,
     iteration |-> iteration, mesh |-> m, material |-> mat, path |-> path]

\* the program stopped inside t
Crashed(t) == t # <<>> /\ t[Len(t)].kind = "overflow"

IsSpawn(e) == e.kind = "spawn"
Spawns(t) == SelectSeq(t, IsSpawn)
Handles(e) == <<e.mesh, e.material>>

---------------------------------------------------------------------------
(* create_tetrahedron *)

\* y in units of sqrt(2), z in units of 1/sqrt(2)
offsets == <<
    Vec3(1, 0, -1),     \* front right
    Vec3(-1, 0, -1),    \* front left
    Vec3(0, 0, 1),      \* back middle
    Vec3(0, 1, 0) >>    \* top

\* mutant of new_scale: the scale is quartered
new_scale_quarter(scale) == scale \div 4

\* let new_scale = scale / 2.0;
new_scale(scale) == scale \div 2

\* position + offset * new_scale * 2.0
tetra_new_position(position, scale, offset) ==
    Vec3(position[1] + offset[1] * new_scale(scale) * 2,
         position[2] + offset[2] * new_scale(scale) * 2,
         position[3] + offset[3] * new_scale(scale) * 2)

\* mutants of tetra_base_case: the recursion stops one level early; the guard is
\* missing
tetra_base_case_early(iteration) == iteration <= 1
tetra_base_case_never(iteration) == FALSE

\* if iteration == 0 { return; }
tetra_base_case(iteration) == iteration = 0

\* one loop iteration: commands.spawn(..), then the recursive call
tetra_body(spawn, sub) == <<spawn>> \o sub

RECURSIVE create_tetrahedron(_, _, _, _, _, _)
RECURSIVE tetra_loop(_, _, _, _, _, _, _)

\* `for &offset in offsets.iter()` from its n-th iteration on, then the return;
\* mats is the highest material handle handed out so far
tetra_loop(n, mats, position, scale, iteration, tetrahedron_mesh, path) ==
    IF n > Len(offsets)
    THEN <<Event("return", position, scale, iteration, tetrahedron_mesh, 0, path)>>
    ELSE LET p == tetra_new_position(position, scale, offsets[n])
             q == Append(path, n)
             spawn == Event("spawn", p, new_scale(scale), iteration,
                            tetrahedron_mesh, mats + 1, q)
             down == U32Sub(iteration, 1)
             sub == IF down = U32Overflow
                    THEN <<Event("overflow", p, new_scale(scale), iteration,
                                 tetrahedron_mesh, 0, q)>>
                    ELSE create_tetrahedron(mats + 1, p, new_scale(scale), down,
                                            tetrahedron_mesh, q)
         IN  IF Crashed(sub)
             THEN tetra_body(spawn, sub)
             ELSE tetra_body(spawn, sub)
                  \o tetra_loop(n + 1, mats + 1 + Len(Spawns(sub)), position,
                                scale, iteration, tetrahedron_mesh, path)

create_tetrahedron(mats, position, scale, iteration, tetrahedron_mesh, path) ==
    <<Event("call", position, scale, iteration, tetrahedron_mesh, 0, path)>>
    \o IF tetra_base_case(iteration)
       THEN <<Event("return", position, scale, iteration, tetrahedron_mesh, 0, path)>>
       ELSE tetra_loop(1, mats, position, scale, iteration, tetrahedron_mesh, path)

---------------------------------------------------------------------------
(* generate_fractal *)

SCALING_FACTOR_DIVISOR == 3     \* SCALING_FACTOR = 1.0 / 3.0; used nowhere

\* the place of (i, j, k) in the order of the three nested 0..3 loops, k
\* innermost; it names the loop iteration in `path`
Cell(i, j, k) == 9 * i + 3 * j + k

\* mutant of Skip: only the centre cell is skipped
Skip_centre_only(i, j, k) == i = 1 /\ j = 1 /\ k = 1

\* if (i == 1 && j == 1) || (i == 1 && k == 1) || (j == 1 && k == 1) { continue; }
Skip(i, j, k) == (i = 1 /\ j = 1) \/ (i = 1 /\ k = 1) \/ (j = 1 /\ k = 1)

\* position + ((i as f32 - 1.0) * offset, (j as f32 - 1.0) * offset,
\*             (k as f32 - 1.0) * offset), with offset = scale
menger_new_position(position, scale, i, j, k) ==
    <<position[1] + (i - 1) * scale,
      position[2] + (j - 1) * scale,
      position[3] + (k - 1) * scale>>

\* mutant of menger_body: the recursive call is made before the spawn
menger_body_post(spawn, sub) == sub \o <<spawn>>

\* one loop iteration that spawns: commands.spawn(..), then the recursive call
menger_body(spawn, sub) == <<spawn>> \o sub

\* scale: Vec3::new(scale, scale, scale)
menger_spawn_scale(scale) == scale

\* the scale handed to the recursive call
menger_child_scale(scale) == scale

\* mutant of menger_recurses: the last level of recursion is lost
menger_recurses_late(iteration) == iteration > 2

\* if iteration > 1 { generate_fractal(..) }
menger_recurses(iteration) == iteration > 1

\* the iterations 0, 1, 2 of a `for .. in 0..3` loop, one after the other, up to
\* the one the program stops in
ForRange(a, b, c) ==
    IF Crashed(a) THEN a
    ELSE IF Crashed(b) THEN a \o b
    ELSE a \o b \o c

RECURSIVE generate_fractal(_, _, _, _, _, _)
RECURSIVE menger_cell(_, _, _, _, _, _, _, _, _)

\* the body of the innermost loop at (i, j, k)
menger_cell(i, j, k, position, scale, iteration, mesh_handle, material_handle, path) ==
    IF Skip(i, j, k) THEN <<>>
    ELSE LET p == menger_new_position(position, scale, i, j, k)
             q == Append(path, Cell(i, j, k))
             spawn == Event("spawn", p, menger_spawn_scale(scale), iteration,
                            mesh_handle, material_handle, q)
             down == U32Sub(iteration, 1)
             sub == IF ~menger_recurses(iteration) THEN <<>>
                    ELSE IF down = U32Overflow
                    THEN <<Event("overflow", p, scale, iteration, mesh_handle,
                                 material_handle, q)>>
                    ELSE generate_fractal(p, menger_child_scale(scale), down,
                                          mesh_handle, material_handle, q)
         IN  menger_body(spawn, sub)

\* for k in 0..3 { .. }
menger_for_k(i, j, position, scale, iteration, mesh_handle, material_handle, path) ==
    LET k0 == menger_cell(i, j, 0, position, scale, iteration, mesh_handle,
                          material_handle, path)
        k1 == menger_cell(i, j, 1, position, scale, iteration, mesh_handle,
                          material_handle, path)
        k2 == menger_cell(i, j, 2, position, scale, iteration, mesh_handle,
                          material_handle, path)
    IN  ForRange(k0, k1, k2)

\* for j in 0..3 { for k in 0..3 { .. } }
menger_for_j(i, position, scale, iteration, mesh_handle, material_handle, path) ==
    LET j0 == menger_for_k(i, 0, position, scale, iteration, mesh_handle,
                           material_handle, path)
        j1 == menger_for_k(i, 1, position, scale, iteration, mesh_handle,
                           material_handle, path)
        j2 == menger_for_k(i, 2, position, scale, iteration, mesh_handle,
                           material_handle, path)
    IN  ForRange(j0, j1, j2)

\* for i in 0..3 { for j in 0..3 { for k in 0..3 { .. } } }
menger_for_i(position, scale, iteration, mesh_handle, material_handle, path) ==
    LET i0 == menger_for_j(0, position, scale, iteration, mesh_handle,
                           material_handle, path)
        i1 == menger_for_j(1, position, scale, iteration, mesh_handle,
                           material_handle, path)
        i2 == menger_for_j(2, position, scale, iteration, mesh_handle,
                           material_handle, path)
    IN  ForRange(i0, i1, i2)

generate_fractal(position, scale, iteration, mesh_handle, material_handle, path) ==
    <<Event("call", position, scale, iteration, mesh_handle, material_handle, path)>>
    \o IF iteration = 0
       THEN <<Event("return", position, scale, iteration, mesh_handle,
                    material_handle, path)>>
       ELSE LET loops == menger_for_i(position, scale, iteration, mesh_handle,
                                      material_handle, path)
            IN  IF Crashed(loops) THEN loops
                ELSE Append(loops, Event("return", position, scale, iteration,
                                         mesh_handle, material_handle, path))

---------------------------------------------------------------------------
(* setup: the base tetrahedron mesh *)

\* coordinates as written in the source
vertices == <<
    <<"0.0", "0.0", "0.0">>,
    <<"1.0", "0.0", "0.0">>,
    <<"0.5", "0.0", "sqrt(3)/2">>,
    <<"0.5", "sqrt(6)/3", "sqrt(3)/6">> >>

indices == <<0, 1, 2,  0, 2, 3,  0, 3, 1,  1, 3, 2>>

\* Mesh::new(PrimitiveTopology::TriangleList): no attribute, no indices
Mesh_new == [positions |-> <<>>, indices |-> <<>>]

\* Mesh::insert_attribute(ATTRIBUTE_POSITION, values) sets the attribute: the
\* values it held are replaced
insert_attribute(m, values) == [m EXCEPT !.positions = values]

set_indices(m, ix) == [m EXCEPT !.indices = ix]

\* for vertex in &vertices { mesh.insert_attribute(.., vec![*vertex]); }, the
\* first n iterations
RECURSIVE insert_vertices(_, _)
insert_vertices(m, n) ==
    IF n = 0 THEN m
    ELSE insert_attribute(insert_vertices(m, n - 1), <<vertices[n]>>)

\* The Startup system.  It spawns the mesh entity, a light and a camera; none
\* carries the Shape marker, so `shapes` is left as it is.
setup ==
    /\ pc = "startup"
    /\ mesh' = set_indices(insert_vertices(Mesh_new, Len(vertices)), indices)
    /\ pc' = "idle"
    /\ UNCHANGED <<args, trace, materials, needs_update, shapes, runs, ticks,
                   passes>>

---------------------------------------------------------------------------
(* create_shape and update *)

MeshHandles == {1, 2}
MaterialHandles == {11, 12}

\* (position, scale, fractal_mesh, debug_material) of the n-th create_shape
\* call: handles 2/11, 1/12, 2/12, 1/11, .. at positions and scales off the
\* defaults of update
ShapeInput(n) ==
    [position |-> Vec3(R(n), R(-2), R(3)), scale |-> R(n + 1),
     mesh |-> 1 + (n % 2), material |-> 11 + ((n \div 2) % 2)]

\* Spawns one entity carrying mesh, material, transform and Shape.  No code of
\* the source calls it; it is the only way a row of update's query can exist.
create_shape ==
    /\ pc = "idle"
    /\ Len(shapes) < MaxShapes
    /\ shapes' = Append(shapes, ShapeInput(Len(shapes) + 1))
    /\ UNCHANGED <<pc, args, trace, materials, needs_update, runs, ticks,
                   passes, mesh>>

initial_position == ZERO
initial_scale == R(1)
initial_iteration == 4

\* what is kept of one generate_fractal call made by update: the arguments the
\* call received, the bag of <<mesh, material>> over its spawns, and whether it
\* returned
Run(t) ==
    LET s == Spawns(t)
        H == {Handles(s[i]) : i \in DOMAIN s}
    IN  [call |-> t[1],
         spawned |-> [h \in H |-> Cardinality({i \in DOMAIN s : Handles(s[i]) = h})],
         returned |-> t[Len(t)].kind = "return"]

\* mutant of update_row: the fractal starts from the transform of the row
update_row_transform(row) ==
    generate_fractal(row.position, row.scale, initial_iteration, row.mesh,
                     row.material, <<>>)

\* the body of `for (mesh_handle, material_handle, transform, _) in query.iter_mut()`
update_row(row) ==
    generate_fractal(initial_position, initial_scale, initial_iteration, row.mesh,
                     row.material, <<>>)

\* mutant of needs_update_after: the flag is left as it was
needs_update_kept == needs_update

\* the value update leaves in needs_update.0
needs_update_after == FALSE

\* update, entered with needs_update.0 true.  The spawned bundles carry no Shape
\* marker: they add no row to the query.
update_pending ==
    /\ pc = "idle"
    /\ ticks < MaxTicks
    /\ needs_update
    /\ runs' = runs \o [n \in 1..Len(shapes) |-> Run(update_row(shapes[n]))]
    /\ needs_update' = needs_update_after
    /\ ticks' = ticks + 1
    /\ passes' = passes + 1
    /\ UNCHANGED <<pc, args, trace, materials, shapes, mesh>>

\* update, entered with needs_update.0 false: nothing is done
update_done ==
    /\ pc = "idle"
    /\ ticks < MaxTicks
    /\ ~needs_update
    /\ ticks' = ticks + 1
    /\ UNCHANGED <<pc, args, trace, materials, needs_update, shapes, runs,
                   passes, mesh>>

---------------------------------------------------------------------------
(* The generators called directly *)

Positions == {ZERO, Vec3(R(1), R(-2), R(3))}
Scales == {R(1), R(1) \div 2, R(3)}
NoArgs == [fn |-> "none", position |-> ZERO, scale |-> 0, iteration |-> 0,
           mesh |-> 0, material |-> 0]

InitGen ==
    /\ \E fn \in {"create_tetrahedron", "generate_fractal"} :
       \E position \in Positions : \E scale \in Scales :
       \E iteration \in 0..(IF fn = "create_tetrahedron" THEN MaxDepthS ELSE MaxDepthM) :
       \E m \in MeshHandles :
          args = [fn |-> fn, position |-> position, scale |-> scale,
                  iteration |-> iteration, mesh |-> m,
                  material |-> IF fn = "generate_fractal" THEN 11 ELSE 0]
    /\ pc = "ready"
    /\ trace = <<>>
    /\ materials = 12    \* handles up to 12 are taken
    /\ needs_update = TRUE
    /\ shapes = <<>>
    /\ runs = <<>>
    /\ ticks = 0
    /\ passes = 0
    /\ mesh = Mesh_new

call_create_tetrahedron ==
    /\ pc = "ready"
    /\ args.fn = "create_tetrahedron"
    /\ LET t == create_tetrahedron(materials, args.position, args.scale,
                                   args.iteration, args.mesh, <<>>)
       IN  /\ trace' = t
           /\ materials' = materials + Len(Spawns(t))
    /\ pc' = "done"
    /\ UNCHANGED <<args, needs_update, shapes, runs, ticks, passes, mesh>>

call_generate_fractal ==
    /\ pc = "ready"
    /\ args.fn = "generate_fractal"
    /\ trace' = generate_fractal(args.position, args.scale, args.iteration,
                                 args.mesh, args.material, <<>>)
    /\ pc' = "done"
    /\ UNCHANGED <<args, materials, needs_update, shapes, runs, ticks, passes,
                   mesh>>

NextGen ==
    \/ call_create_tetrahedron
    \/ call_generate_fractal

SpecGen == InitGen /\ [][NextGen]_vars

---------------------------------------------------------------------------
(* The application: main inserts NeedsUpdate(true), Startup runs setup, every
   Update tick runs update *)

InitApp ==
    /\ pc = "startup"
    /\ args = NoArgs
    /\ trace = <<>>
    /\ materials = 12    \* handles up to 12 are taken
    /\ needs_update = TRUE
    /\ shapes = <<>>
    /\ runs = <<>>
    /\ ticks = 0
    /\ passes = 0
    /\ mesh = Mesh_new

NextApp ==
    \/ setup
    \/ create_shape
    \/ update_pending
    \/ update_done

SpecApp == InitApp /\ [][NextApp]_vars

---------------------------------------------------------------------------
(* Reading a trace *)

Done == pc = "done"
Tetra == args.fn = "create_tetrahedron"
Menger == args.fn = "generate_fractal"

Front(q) == SubSeq(q, 1, Len(q) - 1)
Final(q) == q[Len(q)]

Indices(t, kind) == {i \in DOMAIN t : t[i].kind = kind}
Paths(t, kind) == {t[i].path : i \in Indices(t, kind)}

\* the call event at each place of the call tree of t
CallTable(t) ==
    LET C == Indices(t, "call")
    IN  [q \in {t[i].path : i \in C} |-> t[CHOOSE i \in C : t[i].path = q]]

\* q comes before r when the call tree is walked parent first, children in
\* loop order
PreOrderLess(q, r) ==
    \/ Len(q) < Len(r) /\ SubSeq(r, 1, Len(q)) = q
    \/ \E i \in 1..Len(q) :
          /\ i <= Len(r)
          /\ SubSeq(q, 1, i - 1) = SubSeq(r, 1, i - 1)
          /\ q[i] < r[i]

---------------------------------------------------------------------------
(* Claims *)

\* C1: a top-level create_tetrahedron call with iteration = d spawns exactly
\* 4 * (4^d - 1) / 3 instances (0, 4, 20, 84, ..).
C1_SierpinskiCount ==
    (Done /\ Tetra) =>
        Len(Spawns(trace)) = (4 * (4 ^ args.iteration - 1)) \div 3

C1_Witness ==
    Done /\ Tetra /\ args.iteration = 3 /\ Len(Spawns(trace)) = 84

\* C2: a top-level generate_fractal call with iteration = d spawns exactly
\* 20 * (20^d - 1) / 19 instances (0, 20, 420, ..).
C2_MengerCount ==
    (Done /\ Menger) =>
        Len(Spawns(trace)) = (20 * (20 ^ args.iteration - 1)) \div 19

C2_Witness ==
    Done /\ Menger /\ args.iteration = 2 /\ Len(Spawns(trace)) = 420

\* C6 as stated: in both generators every recursive call receives its caller's
\* scale times one fixed factor strictly between 0 and 1 (1/2 for the
\* tetrahedra, SCALING_FACTOR = 1/3 or any other such factor for the sponge),
\* so the scale strictly decreases along every recursion path.
C6_ScaleShrinks ==
    Done =>
        LET parent == CallTable(trace)
            C == {i \in Indices(trace, "call") : trace[i].path # <<>>}
        IN  \E num \in 1..3 : \E den \in 2..4 :
                /\ num < den
                /\ \A i \in C :
                      LET f == parent[Front(trace[i].path)]
                      IN  /\ trace[i].scale * den = f.scale * num
                          /\ trace[i].scale < f.scale

\* C7: the instances one non-terminal generate_fractal call spawns itself are
\* exactly the 20 cells (i, j, k) with fewer than two indices equal to 1, each at
\* position + (i - 1, j - 1, k - 1) * scale and with the scale of the call.
OnesIn(c) ==
    (IF c \div 9 = 1 THEN 1 ELSE 0) + (IF (c \div 3) % 3 = 1 THEN 1 ELSE 0)
    + (IF c % 3 = 1 THEN 1 ELSE 0)

SurvivingCells == {c \in 0..26 : OnesIn(c) < 2}

C7_MengerCells ==
    (Done /\ Menger) =>
        LET parent == CallTable(trace)
            S == Spawns(trace)
            P == {S[i].path : i \in DOMAIN S}
        IN  /\ Cardinality(SurvivingCells) = 20
            /\ Cardinality(P) = Len(S)
            /\ \A q \in DOMAIN parent :
                  parent[q].iteration >= 1 =>
                      \A c \in 0..26 : Append(q, c) \in P <=> c \in SurvivingCells
            /\ \A i \in DOMAIN S :
                  LET e == S[i]
                      c == Final(e.path)
                      f == parent[Front(e.path)]
                  IN  /\ f.iteration >= 1
                      /\ e.scale = f.scale
                      /\ e.position[1] = f.position[1] + ((c \div 9) - 1) * f.scale
                      /\ e.position[2] = f.position[2] + (((c \div 3) % 3) - 1) * f.scale
                      /\ e.position[3] = f.position[3] + ((c % 3) - 1) * f.scale

C7_Witness ==
    /\ Done /\ Menger /\ args.iteration = 2 /\ args.scale = R(3)
    /\ args.position # ZERO
    /\ <<0, 26>> \in Paths(trace, "spawn")

\* C8: in a create_tetrahedron run started with scale s, every instance spawned
\* at relative depth d has scale s / 2^d, and the recursive call made right after
\* it receives that same scale.
C8_SierpinskiScale ==
    (Done /\ Tetra) =>
        \A i \in Indices(trace, "spawn") :
            /\ trace[i].scale * (2 ^ Len(trace[i].path)) = args.scale
            /\ i < Len(trace)
            /\ trace[i + 1].kind = "call"
            /\ trace[i + 1].path = trace[i].path
            /\ trace[i + 1].scale = trace[i].scale

C8_Witness ==
    /\ Done /\ Tetra /\ args.scale = R(3) /\ args.iteration = 3
    /\ \E i \in Indices(trace, "spawn") :
          Len(trace[i].path) = 3 /\ trace[i].scale * 8 = R(3)

\* C9: both generators spawn in pre-order: an instance comes before every
\* instance of its own subtree, that subtree comes before the next sibling, and
\* the siblings of a call come in its fixed order: front right, front left, back
\* middle, top for the tetrahedra, (i, j, k) with k innermost for the sponge.
TetraOrder == << <<1, 0, -1>>, <<-1, 0, -1>>, <<0, 0, 1>>, <<0, 1, 0>> >>
MengerOrder == [c \in 0..26 |-> <<(c \div 9) - 1, ((c \div 3) % 3) - 1, (c % 3) - 1>>]

C9_PreOrder ==
    Done =>
        LET parent == CallTable(trace)
            S == Spawns(trace)
            order == IF Tetra THEN TetraOrder ELSE MengerOrder
        IN  /\ \A i \in 1..(Len(S) - 1) : PreOrderLess(S[i].path, S[i + 1].path)
            /\ \A i \in DOMAIN S :
                  LET e == S[i]
                      f == parent[Front(e.path)]
                      o == order[Final(e.path)]
                  IN  \A x \in 1..3 : e.position[x] = f.position[x] + o[x] * f.scale

C9_Witness ==
    /\ Done /\ args.iteration = 2
    /\ LET S == Spawns(trace)
       IN  IF Tetra
           THEN /\ S[1].path = <<1>> /\ S[2].path = <<1, 1>>
                /\ S[5].path = <<1, 4>> /\ S[6].path = <<2>>
           ELSE /\ S[1].path = <<0>> /\ S[2].path = <<0, 0>>
                /\ S[21].path = <<0, 26>> /\ S[22].path = <<1>>

\* C10: a generator call runs to completion (its last event is the return of
\* the top-level call, and every call entered has returned): a call with depth 0
\* returns at once having spawned nothing, every recursive call has depth exactly
\* one less than its caller, and depth - 1 is never computed from depth 0.
C10_Completed ==
    Done =>
        LET parent == CallTable(trace)
            C == Indices(trace, "call")
        IN  /\ Indices(trace, "overflow") = {}
            /\ Final(trace).kind = "return" /\ Final(trace).path = <<>>
            /\ Cardinality(C) = Cardinality(Indices(trace, "return"))
            /\ \A i \in C :
                  /\ trace[i].iteration >= 0
                  /\ trace[i].iteration = 0 =>
                        /\ trace[i + 1].kind = "return"
                        /\ trace[i + 1].path = trace[i].path
                  /\ trace[i].path # <<>> =>
                        LET f == parent[Front(trace[i].path)]
                        IN  /\ f.iteration >= 1
                            /\ trace[i].iteration = f.iteration - 1


C10_Witness ==
    /\ Done /\ Tetra /\ args.iteration = 2
    /\ \E i \in Indices(trace, "call") :
          trace[i].iteration = 0 /\ Len(trace[i].path) = 2

\* C3: NeedsUpdate starts true, the first update tick sets it to false and
\* nothing sets it back: at most one tick runs a generation pass, and every tick
\* after the first spawns nothing, whatever rows the query has by then.
C3_State ==
    /\ ticks = 0 => needs_update /\ passes = 0 /\ runs = <<>>
    /\ ticks >= 1 => ~needs_update /\ passes = 1

C3_Step ==
    /\ ~needs_update => ~needs_update'
    /\ (ticks >= 1 /\ ticks' # ticks) => runs' = runs /\ passes' = passes

C3_GeneratesOnce == []C3_State /\ [][C3_Step]_vars

C3_Witness ==
    /\ ticks >= 2 /\ ~needs_update /\ passes = 1
    /\ runs = <<>> /\ Len(shapes) = 2

\* C4: update, run with needs_update true, calls generate_fractal once per row of
\* the query with origin (0, 0, 0), scale 1 and depth 4; every instance of a call
\* carries the mesh and material handles of its row; the instances number (rows)
\* times the depth-4 output size; with no row nothing is spawned and update ends
\* as usual.
DepthFourSize == (20 * (20 ^ 4 - 1)) \div 19

RECURSIVE TotalSpawned(_)
TotalSpawned(rs) ==
    IF rs = <<>> THEN 0
    ELSE BagCardinality(rs[1].spawned) + TotalSpawned(Tail(rs))

C4_Step ==
    passes' = passes + 1 =>
        /\ ~needs_update' /\ ticks' = ticks + 1
        /\ Len(runs') = Len(shapes)
        /\ TotalSpawned(runs') = Len(shapes) * DepthFourSize
        /\ \A n \in 1..Len(shapes) :
              /\ runs'[n].call = Event("call", <<0, 0, 0>>, ONE, 4, shapes[n].mesh,
                                       shapes[n].material, <<>>)
              /\ runs'[n].spawned =
                     (<<shapes[n].mesh, shapes[n].material>> :> DepthFourSize)
              /\ runs'[n].returned

C4_UpdateExpands == [][C4_Step]_vars

C4_Witness ==
    /\ passes = 1 /\ Len(runs) = 2
    /\ runs[1].spawned # runs[2].spawned
    /\ TotalSpawned(runs) = 336840

\* C5 as stated: the mesh built by setup has exactly 4 vertex positions and 12
\* indices, and every index is below the number of vertex positions it holds
\* once the construction loop is over.
C5_BaseMesh ==
    pc = "idle" =>
        /\ Len(mesh.positions) = 4
        /\ Len(mesh.indices) = 12
        /\ \A i \in DOMAIN mesh.indices : mesh.indices[i] < Len(mesh.positions)

====
